---- MODULE Spec2Model ----
(***************************************************************************)
(* Message relay: service1-api (Flask ingress: validate payload, validate  *)
(* token against a cached SSM secret, enqueue to SQS) and                  *)
(* service2-consumer (poll SQS, upload each message to S3, delete it).     *)
(***************************************************************************)
EXTENDS Integers, Sequences, FiniteSets, TLC

(* ------------------------------ bounds -------------------------------- *)
MaxCalls == 3
MaxRotations == 1
MaxProduced == 2
MaxRelayed == 2
MaxAccepted == 1
MAX_MESSAGES == 2

(* ------------------------------ values -------------------------------- *)
None == "None"
Secrets == {"tokA", "tokB"}    \* values the parameter store may hold
Tokens == {"tokA", "wrong"}    \* tokens callers present
Workers == {"w1", "w2"}
required_fields == <<"email_subject", "email_sender", "email_timestream", "email_content">>
FieldSet == {required_fields[i] : i \in 1..Len(required_fields)}
FieldValue == "v"
Timestreams == {"2024-01-01T00:00:00Z", "2023-06-15T12:00:00Z"}

\* a Python dict with string keys: a function from the keys present
\* the data with every field, email_timestream holding ts
DataAt(ts) == [f \in FieldSet |-> IF f = "email_timestream" THEN ts ELSE FieldValue]
FullData == DataAt("2024-01-01T00:00:00Z")
\* the data with every field present and empty
EmptyValues == [f \in FieldSet |-> ""]
Dicts == {[f \in S |-> FullData[f]] : S \in SUBSET FieldSet}
            \cup {EmptyValues}

\* complete data with a field of the caller's own besides the four
WithExtra == [f \in FieldSet \cup {"extra_field"} |-> IF f = "extra_field" THEN "x" ELSE FullData[f]]

\* the request body as Flask hands it over: the envelope dict, or no JSON at all
NoData == [has |-> FALSE, dict |-> <<>>]
Envelopes ==
    {[is_json |-> TRUE, data |-> d, token |-> t] :
        d \in {NoData} \cup {[has |-> TRUE, dict |-> x] : x \in Dicts},
        t \in {None} \cup Tokens}
    \cup {[is_json |-> FALSE, data |-> NoData, token |-> None]}

(* ------------------------------ JSON ---------------------------------- *)
\* json.dumps: the members of the dict, in key order, with the indent used
JsonKeys == required_fields \o <<"extra_field">>
RECURSIVE Members(_, _)
Members(d, i) ==
    IF i > Len(JsonKeys) THEN <<>>
    ELSE (IF JsonKeys[i] \in DOMAIN d
             THEN << <<JsonKeys[i], d[JsonKeys[i]]>> >>
             ELSE <<>>) \o Members(d, i + 1)

\* mutant: json.dumps loses the email_timestream member
json_dumps_without_timestream(obj, indent) ==
    [wellformed |-> TRUE, indent |-> indent,
     members |-> Members([f \in DOMAIN obj \ {"email_timestream"} |-> obj[f]], 1)]

json_dumps(obj, indent) == [wellformed |-> TRUE, indent |-> indent, members |-> Members(obj, 1)]

NotJson == [wellformed |-> FALSE, indent |-> 0, members |-> <<>>]

\* mutant: json.loads keeps the four required fields only
json_loads_required_only(text) ==
    IF ~text.wellformed THEN [ok |-> FALSE, obj |-> <<>>]
    ELSE [ok |-> TRUE,
          obj |-> [k \in {text.members[i][1] : i \in 1..Len(text.members)} \cap FieldSet |->
                     (CHOOSE p \in {text.members[i] : i \in 1..Len(text.members)} : p[1] = k)[2]]]

\* json.loads: raises JSONDecodeError on text that is not JSON
json_loads(text) ==
    IF ~text.wellformed THEN [ok |-> FALSE, obj |-> <<>>]
    ELSE [ok |-> TRUE,
          obj |-> [k \in {text.members[i][1] : i \in 1..Len(text.members)} |->
                     (CHOOSE p \in {text.members[i] : i \in 1..Len(text.members)} : p[1] = k)[2]]]

VARIABLES
    api_token_cache,   \* service1 global: None or the cached token
    ssm_value,         \* the value the parameter store holds now
    req,               \* per worker thread: the request it is serving
    calls,             \* POST /api/message calls started
    rotations,         \* changes of the stored secret so far
    ssm_calls,         \* ssm_client.get_parameter calls made (history)
    overlapped,        \* two requests have been in progress at once (history)
    queue,             \* SQS: message id -> [Body, visible, received]
    sqs_next_id,       \* the next id SQS assigns
    sent,              \* every body SQS ever accepted, by message id (history)
    SQS_QUEUE_URL,     \* service2 configuration: None when the variable is unset
    S3_BUCKET_NAME,
    con,               \* service2: where main is, and the locals of poll_sqs/process_message
    store,             \* S3 bucket: key -> Body
    ticks,             \* the day of Calendar the consumer's clock last showed
    deleted,           \* ids the consumer's delete_message removed (history)
    upload_call        \* the last direct call of upload_to_s3 and what it returned

ingressVars == <<api_token_cache, ssm_value, req, calls, rotations, ssm_calls, overlapped>>
queueVars == <<queue, sqs_next_id, sent>>
consumerVars == <<SQS_QUEUE_URL, S3_BUCKET_NAME, con, store, ticks, deleted, upload_call>>

(* ------------------------- service1-api -------------------------------- *)
\* a response: the HTTP status and the "status", "error" and "message_id" of its body
NoResp == [status |-> 0, body_status |-> "", error |-> <<>>, message_id |-> 0]
IdleReq == [pc |-> "idle", route |-> "", envelope |-> [is_json |-> FALSE, data |-> NoData, token |-> None],
            cache_seen |-> None, fetched |-> None, expected_token |-> None,
            nfetch |-> 0, nsend |-> 0, sqs_outcome |-> "none", resp |-> NoResp]

Err(status, text) == [status |-> status, body_status |-> "", error |-> text, message_id |-> 0]

\* mutant: the list of missing fields is built back to front
RECURSIVE missing_fields_reversed(_, _)
missing_fields_reversed(data, i) ==
    IF i > Len(required_fields) THEN <<>>
    ELSE missing_fields_reversed(data, i + 1)
         \o (IF required_fields[i] \notin DOMAIN data THEN <<required_fields[i]>> ELSE <<>>)

\* ', '.join of the field names of required_fields that are not in data
RECURSIVE missing_fields(_, _)
missing_fields(data, i) ==
    IF i > Len(required_fields) THEN <<>>
    ELSE (IF required_fields[i] \notin DOMAIN data THEN <<required_fields[i]>> ELSE <<>>)
         \o missing_fields(data, i + 1)

\* mutant: the token is looked for before the data
validate_payload_token_first(payload) ==
    IF payload.token = None THEN [ok |-> FALSE, msg |-> <<"Missing 'token' field">>]
    ELSE IF ~payload.data.has THEN [ok |-> FALSE, msg |-> <<"Missing 'data' field">>]
    ELSE IF missing_fields(payload.data.dict, 1) # <<>>
         THEN [ok |-> FALSE,
               msg |-> <<"Missing required fields in data:">> \o missing_fields(payload.data.dict, 1)]
    ELSE [ok |-> TRUE, msg |-> <<>>]

\* validate_payload: 'data' in payload, 'token' in payload, the four fields in data
validate_payload(payload) ==
    IF ~payload.data.has THEN [ok |-> FALSE, msg |-> <<"Missing 'data' field">>]
    ELSE IF payload.token = None THEN [ok |-> FALSE, msg |-> <<"Missing 'token' field">>]
    ELSE IF missing_fields(payload.data.dict, 1) # <<>>
         THEN [ok |-> FALSE,
               msg |-> <<"Missing required fields in data:">> \o missing_fields(payload.data.dict, 1)]
    ELSE [ok |-> TRUE, msg |-> <<>>]

\* mutant: the cache is never found filled
Truthy_never(v) == FALSE

\* `if api_token_cache:` -- None and the empty string are both falsy
Truthy(v) == v \notin {None, ""}

\* mutant: the result of the comparison is dropped
validate_token_accepts(provided_token, expected_token) == [ok |-> TRUE, msg |-> <<>>]

validate_token(provided_token, expected_token) ==
    IF provided_token = expected_token
        THEN [ok |-> TRUE, msg |-> <<>>]
        ELSE [ok |-> FALSE, msg |-> <<"Invalid", " ", "???", "token">>]

\* mutant: process_message goes on to send whatever validate_token said
AfterToken_sends_anyway(r, expected) ==
    [r EXCEPT !.expected_token = expected, !.pc = "send_to_sqs"]

\* the rest of process_message once validate_token has its expected_token
AfterToken(r, expected) ==
    LET v == validate_token(r.envelope.token, expected) IN
    IF v.ok THEN [r EXCEPT !.expected_token = expected, !.pc = "send_to_sqs"]
    ELSE [r EXCEPT !.expected_token = expected, !.pc = "done", !.resp = Err(401, v.msg)]

\* mutant: the except branch hands the exception text to the caller
TokenValidationFailed_leaks(r) ==
    [r EXCEPT !.pc = "done", !.resp = Err(401, <<"Token validation failed", "ClientError">>)]

\* validate_token's except branch, and the 401 process_message makes of it
TokenValidationFailed(r) ==
    [r EXCEPT !.pc = "done", !.resp = Err(401, <<"Token validation failed">>)]

\* mutant: send_to_sqs reports success whatever send_message did
send_to_sqs_always_true(outcome, MessageId) ==
    [success |-> TRUE, result |-> MessageId, text |-> ""]

\* send_to_sqs's two returns: (True, MessageId) and (False, str(e))
send_to_sqs(outcome, MessageId) ==
    IF outcome = "ok" THEN [success |-> TRUE, result |-> MessageId, text |-> ""]
    ELSE [success |-> FALSE, result |-> 0, text |-> outcome]

\* mutant: a failed send is answered without the text of the failure
SendResponse_generic(s) ==
    IF ~s.success THEN Err(500, <<"Internal Server Error">>)
    ELSE [status |-> 200, body_status |-> "success", error |-> <<>>, message_id |-> s.result]

\* process_message's answer to what send_to_sqs returned
SendResponse(s) ==
    IF ~s.success THEN Err(500, <<"Failed to send message:", s.text>>)
    ELSE [status |-> 200, body_status |-> "success", error |-> <<>>, message_id |-> s.result]

\* mutant: the health route looks at the token cache
health_check_needs_token ==
    IF api_token_cache = None
        THEN [status |-> 503, body_status |-> "unhealthy", error |-> <<>>, message_id |-> 0]
        ELSE [status |-> 200, body_status |-> "healthy", error |-> <<>>, message_id |-> 0]

\* health_check: jsonify({"status": "healthy"}), 200
health_check == [status |-> 200, body_status |-> "healthy", error |-> <<>>, message_id |-> 0]

\* POST /api/message arrives: content type, then validate_payload
Post(w, e) ==
    /\ req[w].pc = "idle"
    /\ calls < MaxCalls
    /\ calls' = calls + 1
    /\ LET r == [IdleReq EXCEPT !.envelope = e, !.route = "/api/message"] IN
       req' = [req EXCEPT ![w] =
            IF ~e.is_json
                THEN [r EXCEPT !.pc = "done",
                               !.resp = Err(400, <<"Content-Type must be application/json">>)]
            ELSE IF ~validate_payload(e).ok
                THEN [r EXCEPT !.pc = "done", !.resp = Err(400, validate_payload(e).msg)]
            ELSE [r EXCEPT !.pc = "get_api_token"]]
    /\ overlapped' = (overlapped \/ \E x \in Workers \ {w} : req[x].pc # "idle")
    /\ UNCHANGED <<api_token_cache, ssm_value, rotations, ssm_calls, queueVars, consumerVars>>

\* get_api_token, the cache test
GetApiToken(w) ==
    /\ req[w].pc = "get_api_token"
    /\ req' = [req EXCEPT ![w] =
            IF Truthy(api_token_cache)
                THEN AfterToken([req[w] EXCEPT !.cache_seen = api_token_cache], api_token_cache)
                ELSE [req[w] EXCEPT !.cache_seen = api_token_cache, !.pc = "get_parameter"]]
    /\ UNCHANGED <<api_token_cache, ssm_value, calls, rotations, ssm_calls, overlapped, queueVars, consumerVars>>

\* ssm_client.get_parameter returns the stored value
GetParameterOk(w) ==
    /\ req[w].pc = "get_parameter"
    /\ ssm_calls' = ssm_calls + 1
    /\ req' = [req EXCEPT ![w] = [req[w] EXCEPT !.fetched = ssm_value, !.pc = "assign_cache",
                                                !.nfetch = @ + 1]]
    /\ UNCHANGED <<api_token_cache, ssm_value, calls, rotations, overlapped, queueVars, consumerVars>>

\* ssm_client.get_parameter raises (ClientError is logged and re-raised, any
\* other exception passes through); validate_token catches either
GetParameterFails(w) ==
    /\ req[w].pc = "get_parameter"
    /\ ssm_calls' = ssm_calls + 1
    /\ req' = [req EXCEPT ![w] = TokenValidationFailed([req[w] EXCEPT !.nfetch = @ + 1])]
    /\ UNCHANGED <<api_token_cache, ssm_value, calls, rotations, overlapped, queueVars, consumerVars>>

\* mutant: a thread that finds the cache filled by another thread empties it
AssignCache_clears_filled(w) ==
    /\ req[w].pc = "assign_cache"
    /\ api_token_cache' = IF api_token_cache # None THEN None ELSE req[w].fetched
    /\ req' = [req EXCEPT ![w] = [req[w] EXCEPT !.pc = "return_cache"]]
    /\ UNCHANGED <<ssm_value, calls, rotations, ssm_calls, overlapped, queueVars, consumerVars>>

\* api_token_cache = response['Parameter']['Value']
AssignCache(w) ==
    /\ req[w].pc = "assign_cache"
    /\ api_token_cache' = req[w].fetched
    /\ req' = [req EXCEPT ![w] = [req[w] EXCEPT !.pc = "return_cache"]]
    /\ UNCHANGED <<ssm_value, calls, rotations, ssm_calls, overlapped, queueVars, consumerVars>>

\* return api_token_cache -- reads the global again
ReturnCache(w) ==
    /\ req[w].pc = "return_cache"
    /\ req' = [req EXCEPT ![w] = AfterToken(req[w], api_token_cache)]
    /\ UNCHANGED <<api_token_cache, ssm_value, calls, rotations, ssm_calls, overlapped, queueVars, consumerVars>>

\* send_to_sqs: sqs_client.send_message accepted
SendOk(w) ==
    /\ req[w].pc = "send_to_sqs"
    /\ queue' = [m \in DOMAIN queue \cup {sqs_next_id} |->
                    IF m = sqs_next_id
                        THEN [Body |-> json_dumps(req[w].envelope.data.dict, 0), visible |-> TRUE,
                              received |-> "never"]
                        ELSE queue[m]]
    /\ sent' = [m \in DOMAIN sent \cup {sqs_next_id} |->
                    IF m = sqs_next_id THEN json_dumps(req[w].envelope.data.dict, 0) ELSE sent[m]]
    /\ sqs_next_id' = sqs_next_id + 1
    /\ req' = [req EXCEPT ![w] = [req[w] EXCEPT !.pc = "done", !.nsend = @ + 1,
                    !.sqs_outcome = "ok",
                    !.resp = SendResponse(send_to_sqs("ok", sqs_next_id))]]
    /\ UNCHANGED <<api_token_cache, ssm_value, calls, rotations, ssm_calls, overlapped, consumerVars>>

\* send_to_sqs: sqs_client.send_message raises ClientError
SendClientError(w) ==
    /\ req[w].pc = "send_to_sqs"
    /\ req' = [req EXCEPT ![w] = [req[w] EXCEPT !.pc = "done", !.nsend = @ + 1,
                    !.sqs_outcome = "ClientError",
                    !.resp = SendResponse(send_to_sqs("ClientError", 0))]]
    /\ UNCHANGED <<api_token_cache, ssm_value, calls, rotations, ssm_calls, overlapped, queueVars, consumerVars>>

\* send_to_sqs: sqs_client.send_message raises something that is no ClientError
\* (the endpoint cannot be reached, say); nothing in app.py catches it and
\* Flask, run with debug=False, answers 500 on its own
SendOtherError(w) ==
    /\ req[w].pc = "send_to_sqs"
    /\ req' = [req EXCEPT ![w] = [req[w] EXCEPT !.pc = "done", !.nsend = @ + 1,
                    !.sqs_outcome = "Exception",
                    !.resp = Err(500, <<"Internal Server Error">>)]]
    /\ UNCHANGED <<api_token_cache, ssm_value, calls, rotations, ssm_calls, overlapped, queueVars, consumerVars>>

\* GET /health arrives and is answered
Health(w) ==
    /\ req[w].pc = "idle"
    /\ req' = [req EXCEPT ![w] = [IdleReq EXCEPT !.pc = "done", !.route = "/health",
                                                 !.resp = health_check]]
    /\ UNCHANGED <<api_token_cache, ssm_value, calls, rotations, ssm_calls, overlapped, queueVars, consumerVars>>

\* the response has gone out; the worker thread takes the next request
Finish(w) ==
    /\ req[w].pc = "done"
    /\ req' = [req EXCEPT ![w] = IdleReq]
    /\ UNCHANGED <<api_token_cache, ssm_value, calls, rotations, ssm_calls, overlapped, queueVars, consumerVars>>

\* the operator of the parameter store changes the secret
RotateSecret(v) ==
    /\ rotations < MaxRotations
    /\ v # ssm_value
    /\ ssm_value' = v
    /\ rotations' = rotations + 1
    /\ UNCHANGED <<api_token_cache, req, calls, ssm_calls, overlapped, queueVars, consumerVars>>

(* ------------------------- service2-consumer --------------------------- *)
\* datetime.utcnow(), as a date
Calendar == <<[year |-> 2023, month |-> 12, day |-> 31], [year |-> 2024, month |-> 1, day |-> 1]>>
utcnow(t) == Calendar[t]

\* mutant: the month and the day are written without padding
Pad2_unpadded(n) == IF n < 10 THEN <<n>> ELSE <<n \div 10, n % 10>>

\* {n:02d} for a month or a day
Pad2(n) == <<n \div 10, n % 10>>

\* mutant: the key of a redelivered copy differs from the key of the first delivery
s3_key_by_delivery(now, message_id) ==
    <<"messages", now.year, Pad2(now.month), Pad2(now.day), message_id,
      IF message_id \in DOMAIN queue /\ queue[message_id].received = "again"
          THEN ".json.2" ELSE ".json">>

\* f"messages/{now.year}/{now.month:02d}/{now.day:02d}/{message_id}.json"
s3_key(now, message_id) ==
    <<"messages", now.year, Pad2(now.month), Pad2(now.day), message_id, ".json">>

\* mutant: the except branch of upload_to_s3 reports success
upload_to_s3_swallows(put_outcome) ==
    CASE put_outcome = "ok" -> "True"
      [] put_outcome = "ClientError" -> "True"
      [] OTHER -> "raise"

\* what upload_to_s3 hands back for an outcome of s3_client.put_object:
\* True, False (ClientError caught) or the exception passing through
upload_to_s3(put_outcome) ==
    CASE put_outcome = "ok" -> "True"
      [] put_outcome = "ClientError" -> "False"
      [] OTHER -> "raise"

\* mutant: put_object leaves an object that is already there as it is
put_object_keeps(bucket, Key, Body) ==
    [k \in DOMAIN bucket \cup {Key} |-> IF k \in DOMAIN bucket THEN bucket[k] ELSE Body]

\* s3_client.put_object(Bucket, Key, Body): the object at Key is created or replaced
put_object(bucket, Key, Body) ==
    [k \in DOMAIN bucket \cup {Key} |-> IF k = Key THEN Body ELSE bucket[k]]

NoObject == [found |-> FALSE, Body |-> NotJson]
NoCall == [message_data |-> <<>>, message_id |-> 0, day |-> 0, result |-> "none",
           replaced |-> NoObject]

\* one call of process_message; replaced tells whether its put found an object at the key
NoAttempt == [MessageId |-> 0, parsed |-> FALSE, put |-> "none", replaced |-> FALSE,
              delete |-> "none", ret |-> FALSE]
\* caught: the last cycle ended in main's except Exception;
\* polled: what receive_message did in this cycle;
\* signal_at: where main was when KeyboardInterrupt arrived
InitCon == [pc |-> "main", batch |-> <<>>, i |-> 0, successful |-> 0, returned |-> 0,
            message_data |-> <<>>, attempt |-> NoAttempt, log |-> <<>>,
            caught |-> FALSE, signal_at |-> "none", polled |-> "none"]

Message(c) == c.batch[c.i]

\* mutant: successful = 1 in place of successful += 1
Return_counts_to_one(c, ret) ==
    LET a == [c.attempt EXCEPT !.ret = ret]
        n == IF ret THEN 1 ELSE c.successful
        d == [c EXCEPT !.log = Append(@, a), !.successful = n, !.attempt = NoAttempt,
                       !.message_data = <<>>]
    IN  IF c.i < Len(c.batch)
            THEN [d EXCEPT !.i = @ + 1, !.pc = "parse"]
            ELSE [d EXCEPT !.pc = "sleep", !.returned = n]

\* mutant: a failed message ends the for loop of poll_sqs
Return_aborts(c, ret) ==
    LET a == [c.attempt EXCEPT !.ret = ret]
        n == IF ret THEN c.successful + 1 ELSE c.successful
        d == [c EXCEPT !.log = Append(@, a), !.successful = n, !.attempt = NoAttempt,
                       !.message_data = <<>>]
    IN  IF c.i < Len(c.batch) /\ ret
            THEN [d EXCEPT !.i = @ + 1, !.pc = "parse"]
            ELSE [d EXCEPT !.pc = "sleep", !.returned = n]

\* process_message returns ret for the message in hand; the for loop of
\* poll_sqs counts it and moves on, and poll_sqs returns after the last one
Return(c, ret) ==
    LET a == [c.attempt EXCEPT !.ret = ret]
        n == IF ret THEN c.successful + 1 ELSE c.successful
        d == [c EXCEPT !.log = Append(@, a), !.successful = n, !.attempt = NoAttempt,
                       !.message_data = <<>>]
    IN  IF c.i < Len(c.batch)
            THEN [d EXCEPT !.i = @ + 1, !.pc = "parse"]
            ELSE [d EXCEPT !.pc = "sleep", !.returned = n]

\* mutant: the JSONDecodeError handler logs and carries on
AfterParse_carries_on(c, r) == [c EXCEPT !.pc = "upload", !.message_data = r.obj]

\* process_message after json.loads: JSONDecodeError returns False
AfterParse(c, r) ==
    IF r.ok THEN [c EXCEPT !.pc = "upload", !.message_data = r.obj] ELSE Return(c, FALSE)

\* mutant: process_message returns after the upload and never deletes
AfterUpload_never_deletes(c, result) == Return(c, result = "True")

\* mutant: the result of upload_to_s3 is not looked at
AfterUpload_unchecked(c, result) ==
    IF result = "raise" THEN Return(c, FALSE) ELSE [c EXCEPT !.pc = "delete"]

\* process_message after upload_to_s3 came back with result
AfterUpload(c, result) ==
    IF result = "True" THEN [c EXCEPT !.pc = "delete"] ELSE Return(c, FALSE)

\* the batches receive_message may hand over: up to MAX_MESSAGES visible
\* messages, each once, in any order
Batches ==
    LET V == {m \in DOMAIN queue : queue[m].visible} IN
    UNION {{s \in [1..n -> V] : \A a, b \in 1..n : a # b => s[a] # s[b]} : n \in 0..MAX_MESSAGES}

\* mutant: main tests the queue URL only
ConfigMissing_url_only(url, bucket) == ~Truthy(url)

\* main: if not SQS_QUEUE_URL ... if not S3_BUCKET_NAME ...
ConfigMissing(url, bucket) == ~Truthy(url) \/ ~Truthy(bucket)

\* mutant: main's except Exception goes straight back to poll_sqs
MainExcept_no_sleep(c) ==
    [c EXCEPT !.pc = "poll", !.caught = TRUE, !.batch = <<>>, !.i = 0, !.successful = 0,
              !.log = <<>>]

\* main: except Exception, then time.sleep(POLL_INTERVAL)
MainExcept(c) ==
    [c EXCEPT !.pc = "sleep_after_error", !.caught = TRUE, !.batch = <<>>, !.i = 0,
              !.successful = 0, !.log = <<>>]

\* mutant: process_message catches the interrupt like any failure of the message
Interrupt_swallowed(c) ==
    IF c.pc \in {"parse", "upload", "delete"}
        THEN [Return(c, FALSE) EXCEPT !.signal_at = c.pc]
        ELSE [c EXCEPT !.signal_at = c.pc,
                       !.pc = IF c.pc \in {"main", "sleep_after_error"}
                                 THEN "interrupted" ELSE "stopped"]

\* KeyboardInterrupt: inside the try block of the loop main breaks out of the
\* loop; ahead of the loop or in the except handler's sleep it leaves main as
\* an exception
Interrupt(c) ==
    [c EXCEPT !.signal_at = c.pc,
              !.pc = IF c.pc \in {"main", "sleep_after_error"} THEN "interrupted" ELSE "stopped"]

\* main: the configuration test ahead of the loop
ValidateConfig ==
    /\ con.pc = "main"
    /\ con' = [con EXCEPT !.pc = IF ConfigMissing(SQS_QUEUE_URL, S3_BUCKET_NAME)
                                    THEN "ValueError" ELSE "poll"]
    /\ UNCHANGED <<ingressVars, queueVars, SQS_QUEUE_URL, S3_BUCKET_NAME, store, ticks, deleted, upload_call>>

\* mutant: an empty answer is raised as an error
NoMessages_raises(c) == [MainExcept(c) EXCEPT !.polled = "empty"]

\* poll_sqs: if not messages: return 0
NoMessages(c) ==
    [c EXCEPT !.pc = "sleep", !.batch = <<>>, !.i = 0, !.successful = 0, !.returned = 0,
              !.log = <<>>, !.caught = FALSE, !.polled = "empty"]

\* poll_sqs: receive_message answers with a batch (possibly empty)
Receive(ids) ==
    /\ con.pc = "poll"
    /\ ids \in Batches
    /\ queue' = [m \in DOMAIN queue |->
                    IF \E k \in 1..Len(ids) : ids[k] = m
                        THEN [queue[m] EXCEPT !.visible = FALSE,
                                              !.received = IF @ = "never" THEN "once" ELSE "again"]
                        ELSE queue[m]]
    /\ con' = IF ids = <<>>
                THEN NoMessages(con)
                ELSE [con EXCEPT !.pc = "parse", !.i = 1, !.successful = 0, !.log = <<>>,
                                 !.caught = FALSE, !.polled = "messages",
                                 !.batch = [k \in 1..Len(ids) |->
                                        [MessageId |-> ids[k], ReceiptHandle |-> ids[k],
                                         Body |-> queue[ids[k]].Body]]]
    /\ UNCHANGED <<ingressVars, sqs_next_id, sent, SQS_QUEUE_URL, S3_BUCKET_NAME, store, ticks,
                   deleted, upload_call>>

\* poll_sqs: receive_message raises ClientError; poll_sqs returns 0
ReceiveClientError ==
    /\ con.pc = "poll"
    /\ con' = [con EXCEPT !.pc = "sleep", !.batch = <<>>, !.i = 0, !.successful = 0,
                          !.returned = 0, !.log = <<>>, !.caught = FALSE,
                          !.polled = "ClientError"]
    /\ UNCHANGED <<ingressVars, queueVars, SQS_QUEUE_URL, S3_BUCKET_NAME, store, ticks, deleted, upload_call>>

\* poll_sqs: receive_message raises something else; main's except Exception
ReceiveOtherError ==
    /\ con.pc = "poll"
    /\ con' = [MainExcept(con) EXCEPT !.polled = "Exception"]
    /\ UNCHANGED <<ingressVars, queueVars, SQS_QUEUE_URL, S3_BUCKET_NAME, store, ticks, deleted, upload_call>>

\* process_message: json.loads(body)
Parse ==
    /\ con.pc = "parse"
    /\ LET r == json_loads(Message(con).Body)
           c == [con EXCEPT !.attempt = [NoAttempt EXCEPT !.MessageId = Message(con).MessageId,
                                                          !.parsed = r.ok]]
       IN con' = AfterParse(c, r)
    /\ UNCHANGED <<ingressVars, queueVars, SQS_QUEUE_URL, S3_BUCKET_NAME, store, ticks, deleted, upload_call>>

\* mutant: upload_to_s3 reports success without the object having been stored
PutOk_stores_nothing(t) ==
    /\ con.pc = "upload"
    /\ t \in ticks..Len(Calendar)
    /\ ticks' = t
    /\ store' = store
    /\ con' = AfterUpload([con EXCEPT !.attempt.put = "ok"], upload_to_s3("ok"))
    /\ UNCHANGED <<ingressVars, queueVars, SQS_QUEUE_URL, S3_BUCKET_NAME, deleted, upload_call>>

\* upload_to_s3: datetime.utcnow() reads day t (the clock never runs backwards) and
\* put_object stores the object
PutOk(t) ==
    /\ con.pc = "upload"
    /\ t \in ticks..Len(Calendar)
    /\ ticks' = t
    /\ store' = put_object(store, s3_key(utcnow(t), Message(con).MessageId),
                            json_dumps(con.message_data, 2))
    /\ con' = AfterUpload([con EXCEPT !.attempt.put = "ok",
                                       !.attempt.replaced =
                                           s3_key(utcnow(t), Message(con).MessageId)
                                               \in DOMAIN store],
                           upload_to_s3("ok"))
    /\ UNCHANGED <<ingressVars, queueVars, SQS_QUEUE_URL, S3_BUCKET_NAME, deleted, upload_call>>

\* upload_to_s3: put_object raises (ClientError, or anything else)
PutFails(outcome) ==
    /\ con.pc = "upload"
    /\ outcome \in {"ClientError", "Exception"}
    /\ con' = AfterUpload([con EXCEPT !.attempt.put = outcome], upload_to_s3(outcome))
    /\ UNCHANGED <<ingressVars, queueVars, SQS_QUEUE_URL, S3_BUCKET_NAME, store, ticks, deleted, upload_call>>

\* process_message: delete_message removes the message
DeleteOk ==
    /\ con.pc = "delete"
    /\ queue' = [m \in DOMAIN queue \ {Message(con).ReceiptHandle} |-> queue[m]]
    /\ deleted' = deleted \cup {Message(con).MessageId}
    /\ con' = Return([con EXCEPT !.attempt.delete = "ok"], TRUE)
    /\ UNCHANGED <<ingressVars, sqs_next_id, sent, SQS_QUEUE_URL, S3_BUCKET_NAME, store, ticks,
                   upload_call>>

\* mutant: a failed delete takes the objects of the message out of the store again
DeleteFails_rolls_back ==
    /\ con.pc = "delete"
    /\ con' = Return([con EXCEPT !.attempt.delete = "failed"], FALSE)
    /\ store' = [k \in {x \in DOMAIN store : x[5] # Message(con).MessageId} |-> store[k]]
    /\ UNCHANGED <<ingressVars, queueVars, SQS_QUEUE_URL, S3_BUCKET_NAME, ticks, deleted, upload_call>>

\* process_message: delete_message raises; except Exception returns False
DeleteFails ==
    /\ con.pc = "delete"
    /\ con' = Return([con EXCEPT !.attempt.delete = "failed"], FALSE)
    /\ UNCHANGED <<ingressVars, queueVars, SQS_QUEUE_URL, S3_BUCKET_NAME, store, ticks, deleted, upload_call>>

\* time.sleep(POLL_INTERVAL) is over, in the try block or in the handler
Wake ==
    /\ con.pc \in {"sleep", "sleep_after_error"}
    /\ con' = [InitCon EXCEPT !.pc = "poll", !.caught = con.caught]
    /\ UNCHANGED <<ingressVars, queueVars, SQS_QUEUE_URL, S3_BUCKET_NAME, store, ticks, deleted, upload_call>>

\* KeyboardInterrupt arrives
KeyboardInterrupt ==
    /\ con.pc \in {"main", "poll", "parse", "upload", "delete", "sleep", "sleep_after_error"}
    /\ con' = Interrupt(con)
    /\ UNCHANGED <<ingressVars, queueVars, SQS_QUEUE_URL, S3_BUCKET_NAME, store, ticks, deleted, upload_call>>

\* the arguments upload_to_s3 is called with when it is called on its own
UploadData == {DataAt(ts) : ts \in Timestreams} \cup {<<>>}
UploadIds == 1..MaxProduced

\* upload_to_s3(message_data, message_id) called on its own: utcnow() reads day t,
\* put_object stores the object or raises
UploadCall(message_data, message_id, t, put_outcome) ==
    /\ t \in ticks..Len(Calendar)
    /\ ticks' = t
    /\ store' = IF put_outcome = "ok"
                    THEN put_object(store, s3_key(utcnow(t), message_id),
                                    json_dumps(message_data, 2))
                    ELSE store
    /\ LET Key == s3_key(utcnow(t), message_id) IN
       upload_call' = [message_data |-> message_data, message_id |-> message_id, day |-> t,
                       result |-> upload_to_s3(put_outcome),
                       replaced |-> IF Key \in DOMAIN store
                                       THEN [found |-> TRUE, Body |-> store[Key]]
                                       ELSE NoObject]
    /\ UNCHANGED <<ingressVars, queueVars, SQS_QUEUE_URL, S3_BUCKET_NAME, con, deleted>>

(* ------------------------- the surroundings ---------------------------- *)
ProducedBodies == {json_dumps(FullData, 0), NotJson}

\* some producer puts a body on the queue
Produce(body) ==
    /\ sqs_next_id <= MaxProduced
    /\ queue' = [m \in DOMAIN queue \cup {sqs_next_id} |->
                    IF m = sqs_next_id
                        THEN [Body |-> body, visible |-> TRUE, received |-> "never"]
                        ELSE queue[m]]
    /\ sent' = [m \in DOMAIN sent \cup {sqs_next_id} |->
                    IF m = sqs_next_id THEN body ELSE sent[m]]
    /\ sqs_next_id' = sqs_next_id + 1
    /\ UNCHANGED <<ingressVars, consumerVars>>

\* the visibility timeout of a received message runs out
VisibilityTimeout(m) ==
    /\ m \in DOMAIN queue
    /\ ~queue[m].visible
    /\ queue' = [queue EXCEPT ![m].visible = TRUE]
    /\ UNCHANGED <<ingressVars, sqs_next_id, sent, consumerVars>>

vars == <<ingressVars, queueVars, consumerVars>>

Init ==
    /\ api_token_cache = None
    /\ ssm_value = "tokA"
    /\ req = [w \in Workers |-> IdleReq]
    /\ calls = 0
    /\ rotations = 0
    /\ ssm_calls = 0
    /\ overlapped = FALSE
    /\ queue = <<>>
    /\ sqs_next_id = 1
    /\ sent = <<>>
    /\ SQS_QUEUE_URL \in {None, "", "queue-url"}
    /\ S3_BUCKET_NAME \in {None, "", "bucket"}
    /\ con = InitCon
    /\ store = <<>>
    /\ ticks = 1
    /\ deleted = {}
    /\ upload_call = NoCall

NextIngress ==
    \/ \E w \in Workers, e \in Envelopes : Post(w, e)
    \/ \E w \in Workers : GetApiToken(w)
    \/ \E w \in Workers : GetParameterOk(w)
    \/ \E w \in Workers : GetParameterFails(w)
    \/ \E w \in Workers : AssignCache(w)
    \/ \E w \in Workers : ReturnCache(w)
    \/ \E w \in Workers : SendOk(w)
    \/ \E w \in Workers : SendClientError(w)
    \/ \E w \in Workers : SendOtherError(w)
    \/ \E w \in Workers : Health(w)
    \/ \E w \in Workers : Finish(w)
    \/ \E v \in Secrets : RotateSecret(v)

NextConsumer ==
    \/ ValidateConfig
    \/ \E ids \in Batches : Receive(ids)
    \/ ReceiveClientError
    \/ ReceiveOtherError
    \/ Parse
    \/ \E t \in 1..Len(Calendar) : PutOk(t)
    \/ \E o \in {"ClientError", "Exception"} : PutFails(o)
    \/ DeleteOk
    \/ DeleteFails
    \/ Wake
    \/ KeyboardInterrupt
    \/ \E b \in ProducedBodies : Produce(b)
    \/ \E m \in DOMAIN queue : VisibilityTimeout(m)

\* service1 on its own; the consumer's configuration plays no part in it
InitIngress == Init /\ SQS_QUEUE_URL = "queue-url" /\ S3_BUCKET_NAME = "bucket"

SpecIngress == InitIngress /\ [][NextIngress]_vars

SpecConsumer == Init /\ [][NextConsumer]_vars

\* the relay end to end: one caller posting complete envelopes, the queue, and
\* the consumer receiving each message once
RelayData == {DataAt(ts) : ts \in Timestreams} \cup {WithExtra}
RelayEnvelopes ==
    {[is_json |-> TRUE, data |-> [has |-> TRUE, dict |-> d], token |-> t] :
        d \in RelayData, t \in Tokens}

RelayPost(e) == calls < MaxRelayed /\ Post("w1", e)

NextRelay ==
    \/ \E e \in RelayEnvelopes : RelayPost(e)
    \/ GetApiToken("w1")
    \/ GetParameterOk("w1")
    \/ AssignCache("w1")
    \/ ReturnCache("w1")
    \/ SendOk("w1")
    \/ SendClientError("w1")
    \/ Finish("w1")
    \/ ValidateConfig
    \/ \E ids \in Batches : Receive(ids)
    \/ Parse
    \/ \E t \in 1..Len(Calendar) : PutOk(t)
    \/ \E o \in {"ClientError", "Exception"} : PutFails(o)
    \/ DeleteOk
    \/ DeleteFails
    \/ Wake

SpecRelay == InitIngress /\ [][NextRelay]_vars

\* the whole relay: accepted requests, and the consumer with its failures,
\* redeliveries and shutdown
AcceptedEnvelope == [is_json |-> TRUE, data |-> [has |-> TRUE, dict |-> FullData], token |-> "tokA"]

WholePost == calls < MaxAccepted /\ Post("w1", AcceptedEnvelope)

NextWholeRelay ==
    \/ WholePost
    \/ GetApiToken("w1")
    \/ GetParameterOk("w1")
    \/ AssignCache("w1")
    \/ ReturnCache("w1")
    \/ SendOk("w1")
    \/ SendClientError("w1")
    \/ Finish("w1")
    \/ ValidateConfig
    \/ \E ids \in Batches : Receive(ids)
    \/ ReceiveClientError
    \/ ReceiveOtherError
    \/ Parse
    \/ \E t \in 1..Len(Calendar) : PutOk(t)
    \/ \E o \in {"ClientError", "Exception"} : PutFails(o)
    \/ DeleteOk
    \/ DeleteFails
    \/ Wake
    \/ KeyboardInterrupt
    \/ \E m \in DOMAIN queue : VisibilityTimeout(m)

SpecWholeRelay == InitIngress /\ [][NextWholeRelay]_vars

\* the whole relay with the consumer never shut down, the loop scheduled
\* fairly, the queue redelivering what is not deleted and handing every visible
\* message over in the end, and puts and deletes succeeding in the end
NextDelivery ==
    \/ WholePost
    \/ GetApiToken("w1")
    \/ GetParameterOk("w1")
    \/ AssignCache("w1")
    \/ ReturnCache("w1")
    \/ SendOk("w1")
    \/ SendClientError("w1")
    \/ Finish("w1")
    \/ ValidateConfig
    \/ \E ids \in Batches : Receive(ids)
    \/ ReceiveClientError
    \/ ReceiveOtherError
    \/ Parse
    \/ \E t \in 1..Len(Calendar) : PutOk(t)
    \/ \E o \in {"ClientError", "Exception"} : PutFails(o)
    \/ DeleteOk
    \/ DeleteFails
    \/ Wake
    \/ \E m \in DOMAIN queue : VisibilityTimeout(m)

\* a step of the consumer's main
LoopStep ==
    \/ ValidateConfig
    \/ \E ids \in Batches : Receive(ids)
    \/ ReceiveClientError
    \/ ReceiveOtherError
    \/ Parse
    \/ \E t \in 1..Len(Calendar) : PutOk(t)
    \/ \E o \in {"ClientError", "Exception"} : PutFails(o)
    \/ DeleteOk
    \/ DeleteFails
    \/ Wake

\* receive_message hands over a batch with message m in it
Delivers(m) == \E ids \in Batches : (\E k \in 1..Len(ids) : ids[k] = m) /\ Receive(ids)
\* the put, the delete of message m succeeds
PutsOk(m) == con.pc = "upload" /\ Message(con).MessageId = m /\ \E t \in 1..Len(Calendar) : PutOk(t)
DeletesOk(m) == con.pc = "delete" /\ Message(con).MessageId = m /\ DeleteOk

Fairness ==
    /\ WF_vars(LoopStep)
    /\ \A m \in 1..MaxAccepted :
          /\ WF_vars(VisibilityTimeout(m))
          /\ SF_vars(Delivers(m))
          /\ SF_vars(PutsOk(m))
          /\ SF_vars(DeletesOk(m))

SpecDelivery == InitIngress /\ [][NextDelivery]_vars /\ Fairness

\* upload_to_s3 on its own
NextUpload ==
    \E d \in UploadData, m \in UploadIds, t \in 1..Len(Calendar),
       o \in {"ok", "ClientError", "Exception"} : UploadCall(d, m, t, o)

SpecUpload == InitIngress /\ [][NextUpload]_vars

(* ------------------------------ service2 claims ------------------------ *)
\* the attempts of the cycle in hand: those logged and the one under way
Attempts == IF con.attempt = NoAttempt THEN con.log ELSE Append(con.log, con.attempt)

\* the object upload_to_s3 writes for a queue body
ObjectOf(body) == json_dumps(json_loads(body).obj, 2)

StoredFor(m) == {t \in 1..Len(Calendar) : s3_key(Calendar[t], m) \in DOMAIN store}

\* C1: a delete of a message is attempted only after the put of its body has
\* succeeded in the same processing attempt, and every message the consumer has
\* deleted has an object, holding its body, under a key made of its id.
C1_DeleteOnlyAfterPut ==
    /\ con.pc = "delete" =>
          /\ con.attempt.put = "ok"
          /\ con.attempt.MessageId = Message(con).MessageId
          /\ \E t \in StoredFor(Message(con).MessageId) :
                store[s3_key(Calendar[t], Message(con).MessageId)] = ObjectOf(Message(con).Body)
    /\ \A k \in 1..Len(Attempts) : Attempts[k].delete # "none" => Attempts[k].put = "ok"
    /\ \A m \in deleted :
          /\ m \notin DOMAIN queue
          /\ \E t \in StoredFor(m) : store[s3_key(Calendar[t], m)] = ObjectOf(sent[m])

C1_Witness ==
    /\ con.pc = "sleep"
    /\ \E k \in 1..Len(con.log) :
          /\ con.log[k].put = "ok" /\ con.log[k].delete = "ok"
          /\ con.log[k].MessageId \in deleted

\* C2: a message whose put to the object store raised (ClientError or any other
\* exception) is not deleted in that attempt: upload_to_s3 does not report
\* success, no delete is attempted, process_message returns False and the
\* message is still in the queue.
C2_FailedPutNeverDeleted ==
    \A k \in 1..Len(Attempts) :
        Attempts[k].put \in {"ClientError", "Exception"} =>
            /\ upload_to_s3(Attempts[k].put) # "True"
            /\ Attempts[k].delete = "none"
            /\ Attempts[k].ret = FALSE
            /\ Attempts[k].MessageId \in DOMAIN queue
            /\ Attempts[k].MessageId \notin deleted

C2_Witness ==
    /\ con.pc = "sleep"
    /\ \E j, k \in 1..Len(con.log) :
          /\ con.log[j].put = "ClientError" /\ con.log[j].MessageId \in DOMAIN queue
          /\ con.log[k].put = "Exception" /\ con.log[k].MessageId \in DOMAIN queue

PersistedAndDeleted(log) == {k \in 1..Len(log) : log[k].put = "ok" /\ log[k].delete = "ok"}
WellFormed(batch) == {k \in 1..Len(batch) : batch[k].Body.wellformed}

\* C3: failures are isolated within a poll cycle: whatever message of the batch
\* fails (malformed JSON, put failure, delete failure), every message of the
\* batch is processed, each well-formed one gets its put, and the count poll_sqs
\* returns is the number of messages both persisted and deleted; with no put or
\* delete failure that is the number of well-formed messages (one, for a batch of
\* one malformed and one valid message).
C3_FailuresIsolated ==
    /\ con.pc \in {"parse", "upload", "delete"} =>
          /\ Len(con.log) = con.i - 1
          /\ con.successful = Cardinality(PersistedAndDeleted(con.log))
    /\ con.pc = "sleep" =>
          /\ Len(con.log) = Len(con.batch)
          /\ \A k \in 1..Len(con.batch) :
                /\ con.log[k].MessageId = con.batch[k].MessageId
                /\ con.log[k].parsed = con.batch[k].Body.wellformed
                /\ con.log[k].parsed => con.log[k].put # "none"
                /\ con.log[k].ret = (k \in PersistedAndDeleted(con.log))
          /\ con.returned = Cardinality(PersistedAndDeleted(con.log))
          /\ (\A k \in 1..Len(con.log) :
                con.log[k].put \in {"none", "ok"} /\ con.log[k].delete \in {"none", "ok"})
                => con.returned = Cardinality(WellFormed(con.batch))

C3_Witness ==
    /\ con.pc = "sleep"
    /\ Len(con.batch) = 2
    /\ ~con.batch[1].Body.wellformed
    /\ con.batch[2].Body.wellformed
    /\ con.log[1].ret = FALSE
    /\ con.log[2].put = "ok" /\ con.log[2].delete = "ok"
    /\ con.returned = 1

Malformed == {m \in DOMAIN sent : ~sent[m].wellformed}

\* C4: a message whose body is not JSON is never persisted and never deleted: it
\* stays in the queue with no object under its id, every attempt on it returns
\* False before any put or delete, and the consumer carries nothing about
\* earlier attempts into the next poll.
C4_MalformedNeverAcked ==
    /\ \A m \in Malformed :
          /\ m \in DOMAIN queue
          /\ queue[m].Body = sent[m]
          /\ m \notin deleted
          /\ StoredFor(m) = {}
    /\ \A k \in 1..Len(Attempts) :
          Attempts[k].MessageId \in Malformed =>
              /\ ~Attempts[k].parsed
              /\ Attempts[k].put = "none" /\ Attempts[k].delete = "none"
              /\ Attempts[k].ret = FALSE
    /\ con.pc = "poll" => [con EXCEPT !.caught = FALSE] = [InitCon EXCEPT !.pc = "poll"]

\* a malformed message is back in the consumer's hands after a redelivery
C4_Witness ==
    /\ con.pc = "sleep"
    /\ \E k \in 1..Len(con.log) :
          /\ con.log[k].MessageId \in Malformed
          /\ queue[con.log[k].MessageId].received = "again"
    /\ deleted # {}

(* ------------------------------ service1 claims ------------------------ *)
Done(w) == req[w].pc = "done" /\ req[w].route = "/api/message"
JsonCall(w) == Done(w) /\ req[w].envelope.is_json
\* the envelope has data with all four fields, and a token
ValidEnvelope(e) == e.is_json /\ e.data.has /\ DOMAIN e.data.dict = FieldSet /\ e.token # None
\* a token that is no value of the secret
WrongToken(e) == e.token # None /\ e.token \notin Secrets
\* the token is the secret, which has not been changed
CorrectToken(e) == rotations = 0 /\ e.token = ssm_value

\* C5 as stated: a token that is not the secret is answered 401 whatever the
\* payload is.
C5_Original ==
    \A w \in Workers : JsonCall(w) /\ WrongToken(req[w].envelope) => req[w].resp.status = 401

\* C5: a token that is not the secret is never accepted: with an envelope that
\* passes the payload validator the answer is 401; an envelope that fails it is
\* answered 400 with the validator's reason before the token is looked at (no
\* fetch of the secret); either way nothing is sent to the queue. The secret a
\* token is held against is the value get_api_token returned to the request.
C5_WrongTokenRejected ==
    \A w \in Workers :
        /\ JsonCall(w) /\ WrongToken(req[w].envelope) =>
              /\ req[w].nsend = 0
              /\ req[w].resp.message_id = 0
              /\ ValidEnvelope(req[w].envelope) => req[w].resp.status = 401
              /\ ~ValidEnvelope(req[w].envelope) =>
                    /\ req[w].resp.status = 400
                    /\ req[w].nfetch = 0 /\ req[w].expected_token = None
        /\ (Done(w) /\ req[w].expected_token # None
                /\ req[w].envelope.token # req[w].expected_token) =>
              /\ req[w].resp = Err(401, <<"Invalid", " ", "???", "token">>)
              /\ req[w].nsend = 0

C5_Witness ==
    \E w, x \in Workers :
        /\ JsonCall(w) /\ WrongToken(req[w].envelope) /\ ValidEnvelope(req[w].envelope)
        /\ req[w].resp = Err(401, <<"Invalid", " ", "???", "token">>)
        /\ JsonCall(x) /\ WrongToken(req[x].envelope) /\ req[x].envelope.data.has
        /\ DOMAIN req[x].envelope.data.dict # FieldSet
        /\ req[x].resp.status = 400

\* C6 as stated: a valid envelope with the correct token always ends in one
\* enqueue and a 200.
C6_Original ==
    \A w \in Workers :
        Done(w) /\ ValidEnvelope(req[w].envelope) /\ CorrectToken(req[w].envelope) =>
            req[w].resp.status = 200 /\ req[w].nsend = 1

\* C6: a valid envelope with the correct token is answered 200 unless the fetch
\* of the secret fails (401, generic) or the queue rejects the message (500);
\* it is never answered 400 or "invalid token". A 200 comes with exactly one
\* send_message, whose body is the JSON-encoded data, and carries the id the
\* queue gave that message, which no other request was given.
C6_ValidAccepted ==
    \A w \in Workers :
        Done(w) /\ ValidEnvelope(req[w].envelope) /\ CorrectToken(req[w].envelope) =>
            /\ req[w].resp.status \in {200, 401, 500}
            /\ req[w].resp.status = 401 =>
                  /\ req[w].resp.error = <<"Token validation failed">>
                  /\ req[w].nfetch = 1 /\ req[w].fetched = None /\ req[w].nsend = 0
            /\ req[w].resp.status = 500 => req[w].nsend = 1 /\ req[w].resp.message_id = 0
            /\ req[w].resp.status = 200 =>
                  /\ req[w].nsend = 1
                  /\ req[w].resp.message_id \in DOMAIN sent
                  /\ sent[req[w].resp.message_id] = json_dumps(req[w].envelope.data.dict, 0)
                  /\ json_loads(sent[req[w].resp.message_id]).obj = req[w].envelope.data.dict
                  /\ \A x \in Workers \ {w} :
                        req[x].resp.message_id # req[w].resp.message_id
            /\ (req[w].fetched # None \/ req[w].cache_seen # None) =>
                  /\ req[w].resp.status # 401
                  /\ req[w].expected_token = req[w].envelope.token

C6_Witness ==
    \E w \in Workers :
        /\ Done(w) /\ ValidEnvelope(req[w].envelope) /\ CorrectToken(req[w].envelope)
        /\ req[w].resp.status = 200
        /\ req[w].resp.message_id = 2
        /\ Cardinality(DOMAIN sent) = 2

\* the order of the four fields the claim fixes
FieldOrder == <<"email_subject", "email_sender", "email_timestream", "email_content">>
Position(f) == CHOOSE i \in 1..Len(FieldOrder) : FieldOrder[i] = f
MissingOf(e) == FieldSet \ DOMAIN e.data.dict
LacksFields(e) == e.is_json /\ e.data.has /\ MissingOf(e) # {}

\* C7 as stated: every envelope whose data lacks some required field is answered
\* 400 with an error naming exactly the missing fields.
C7_Original ==
    \A w \in Workers :
        Done(w) /\ LacksFields(req[w].envelope) =>
            /\ req[w].resp.status = 400
            /\ {req[w].resp.error[k] : k \in 2..Len(req[w].resp.error)} = MissingOf(req[w].envelope)

\* C7: every envelope that has a token and whose data lacks some of the four
\* required fields is answered 400, and the error names exactly the missing
\* fields, each once, in the fixed order, and no field that is present.
C7_MissingFieldsNamed ==
    \A w \in Workers :
        Done(w) /\ LacksFields(req[w].envelope) /\ req[w].envelope.token # None =>
            LET err == req[w].resp.error IN
            /\ req[w].resp.status = 400
            /\ err[1] = "Missing required fields in data:"
            /\ {err[k] : k \in 2..Len(err)} = MissingOf(req[w].envelope)
            /\ \A j, k \in 2..Len(err) : j < k => Position(err[j]) < Position(err[k])
            /\ req[w].nfetch = 0 /\ req[w].nsend = 0

C7_Witness ==
    \E w \in Workers :
        /\ Done(w) /\ req[w].envelope.token # None
        /\ MissingOf(req[w].envelope) = {"email_sender", "email_content"}
        /\ req[w].resp = Err(400, <<"Missing required fields in data:", "email_sender", "email_content">>)

\* C8 as stated: over calls served one after another the secret is fetched at
\* most once in the life of the process.
C8_Original == ~overlapped => ssm_calls <= 1

\* C8: a request fetches the secret only if it found the cache empty when it
\* looked, and then once; a request that finds the cache filled uses the cached
\* value and does not fetch. (Fetches are not limited to one per process: after a
\* failed fetch the next request fetches again, and requests that find the cache
\* empty at the same time each fetch.)
C8_FetchOnlyOnEmptyCache ==
    /\ \A w \in Workers :
          /\ req[w].nfetch <= 1
          /\ (req[w].nfetch = 1 \/ req[w].pc \in {"get_parameter", "assign_cache", "return_cache"})
                => req[w].cache_seen = None
          /\ req[w].cache_seen # None =>
                req[w].nfetch = 0 /\ req[w].expected_token = req[w].cache_seen
    /\ ssm_calls <= calls

C8_Witness ==
    /\ ssm_calls = 2
    /\ \E w \in Workers :
          Done(w) /\ req[w].cache_seen # None /\ req[w].nfetch = 0 /\ req[w].resp.status = 200

\* does text hold pat, piece by piece
Contains(text, pat) ==
    \E i \in 0..(Len(text) - Len(pat)) : \A j \in 1..Len(pat) : text[i + j] = pat[j]

Mismatch(w) ==
    Done(w) /\ req[w].expected_token # None /\ req[w].envelope.token # req[w].expected_token

\* C11: when the token handed in differs from the stored secret, validate_token
\* returns False with a message that contains the text "Invalid token", and
\* POST /api/message answers 401 with that text in "error".
C11_InvalidTokenText ==
    \A w \in Workers :
        Mismatch(w) =>
            /\ req[w].resp.status = 401
            /\ Contains(req[w].resp.error, <<"Invalid", " ", "token">>)

\* C9: once api_token_cache holds a fetched value it holds that value in every
\* later state.
C9_CacheWrittenOnce ==
    [][api_token_cache # None => api_token_cache' = api_token_cache]_vars

\* C10: when the fetch of the secret fails the request is answered 401 with the
\* generic "Token validation failed", nothing is sent to the queue and the cache
\* is left as it was, so that a request that finds it empty fetches again.
C10_FetchFailure ==
    [][\A w \in Workers :
        /\ (req[w].pc = "get_parameter" /\ req'[w].pc = "done") =>
              /\ req'[w].resp = Err(401, <<"Token validation failed">>)
              /\ req'[w].nsend = 0
              /\ api_token_cache' = api_token_cache
              /\ queue' = queue /\ sent' = sent
        /\ (req[w].pc = "get_api_token" /\ api_token_cache = None /\ req'[w] # req[w]) =>
              req'[w].pc = "get_parameter"]_vars

C10_Witness ==
    \E w, x \in Workers :
        /\ Done(w) /\ req[w].resp = Err(401, <<"Token validation failed">>)
        /\ api_token_cache = None
        /\ ssm_calls = 1
        /\ req[x].pc = "get_parameter"

(* ------------------------------ the object key ------------------------ *)
\* the dates of Calendar as they stand in a key: year, month and day in digits
DatePath == << <<2023, <<1, 2>>, <<3, 1>> >>, <<2024, <<0, 1>>, <<0, 1>> >> >>

\* messages/{year}/{month}/{day}/{message_id}.json for day t of Calendar
ExpectedKey(m, t) == <<"messages", DatePath[t][1], DatePath[t][2], DatePath[t][3], m, ".json">>

\* the keys of a bucket that hold message m under the date of day t
KeysFor(bucket, m, t) ==
    {k \in DOMAIN bucket : k[2] = DatePath[t][1] /\ k[3] = DatePath[t][2]
                             /\ k[4] = DatePath[t][3] /\ k[5] = m}

UploadReturnedTrue == upload_call.result = "True"

\* C12: a successful upload_to_s3 leaves exactly one object for its message id
\* and UTC date, holding the body of this call: an object already there for the
\* same id and date is overwritten, the number of keys does not grow, and no
\* other object changes.
C12_SameDayOverwrites ==
    [][LET c == upload_call'
           Key == ExpectedKey(c.message_id, c.day)
       IN  c.result = "True" =>
               /\ Key \in DOMAIN store'
               /\ store'[Key] = json_dumps(c.message_data, 2)
               /\ KeysFor(store', c.message_id, c.day) = {Key}
               /\ KeysFor(store, c.message_id, c.day) # {} => DOMAIN store' = DOMAIN store
               /\ \A k \in DOMAIN store \ {Key} : store'[k] = store[k]]_vars

\* a second upload for the same id and date has replaced a different body
C12_Witness ==
    /\ UploadReturnedTrue
    /\ upload_call.replaced.found
    /\ upload_call.replaced.Body # json_dumps(upload_call.message_data, 2)
    /\ store[ExpectedKey(upload_call.message_id, upload_call.day)]
           = json_dumps(upload_call.message_data, 2)
    /\ KeysFor(store, upload_call.message_id, upload_call.day)
           = {ExpectedKey(upload_call.message_id, upload_call.day)}

\* the objects the bucket holds for message id m, whatever the date
ObjectsOfId(m) == {k \in DOMAIN store : k[5] = m}

\* C13 as stated: after any number of redeliveries at any times the store holds
\* at most one object for a message id.
C13_Original == \A m \in DOMAIN sent : Cardinality(ObjectsOfId(m)) <= 1

\* C13: a redelivered copy persisted on the UTC date of an earlier persistence
\* overwrites that object: for every message id and date the store holds at
\* most one object, every object sits at the key of a produced id and a date of
\* the calendar and holds that message's data, and a persisted copy leaves its
\* object in place.
C13_OnePerIdAndDate ==
    /\ \A m \in DOMAIN sent, t \in 1..Len(Calendar) : Cardinality(KeysFor(store, m, t)) <= 1
    /\ \A k \in DOMAIN store :
          \E m \in DOMAIN sent, t \in 1..Len(Calendar) :
              k = ExpectedKey(m, t) /\ store[k] = ObjectOf(sent[m])
    /\ \A i \in 1..Len(Attempts) :
          Attempts[i].put = "ok" =>
              \E t \in 1..ticks : ExpectedKey(Attempts[i].MessageId, t) \in DOMAIN store

\* a redelivered copy has been persisted over the object of an earlier delivery,
\* and the store holds one object for its id
C13_Witness ==
    \E i \in 1..Len(Attempts) :
        LET a == Attempts[i] IN
        /\ a.put = "ok" /\ a.replaced
        /\ a.MessageId \in DOMAIN queue /\ queue[a.MessageId].received = "again"
        /\ Cardinality(ObjectsOfId(a.MessageId)) = 1

(* ------------------------------ end to end ---------------------------- *)
\* worker w holds a 200 answer for an envelope whose data carries timestream ts
Accepted(w, ts) ==
    /\ Done(w) /\ req[w].resp.status = 200
    /\ req[w].envelope.data.dict = DataAt(ts)

\* a consumer cycle has persisted message m
Persisted(m) == \E i \in 1..Len(Attempts) : Attempts[i].MessageId = m /\ Attempts[i].put = "ok"

\* C14 as stated: once the envelope with email_timestream 2024-01-01T00:00:00Z
\* is accepted and a consumer cycle has persisted it, the object is at
\* messages/2024/01/01/<id>.json and decodes to the data.
C14_Original ==
    \A w \in Workers :
        Accepted(w, "2024-01-01T00:00:00Z") /\ Persisted(req[w].resp.message_id) =>
            LET Key == <<"messages", 2024, <<0, 1>>, <<0, 1>>, req[w].resp.message_id, ".json">> IN
            Key \in DOMAIN store /\ json_loads(store[Key]).obj = req[w].envelope.data.dict

\* C14: the message id of a 200 answer names the queue body that encodes the
\* envelope's data; once a consumer cycle has persisted a message its object is
\* at messages/<UTC date of that persistence>/<id>.json, every object of the
\* store sits at such a key of an accepted id, and its decoded body equals the
\* original data exactly, whatever the email_timestream.
C14_EndToEnd ==
    /\ \A w \in Workers, ts \in Timestreams :
          Accepted(w, ts) =>
              /\ req[w].resp.message_id \in DOMAIN sent
              /\ json_loads(sent[req[w].resp.message_id]).obj = DataAt(ts)
    /\ \A m \in DOMAIN sent :
          Persisted(m) => \E t \in 1..ticks : ExpectedKey(m, t) \in DOMAIN store
    /\ \A k \in DOMAIN store :
          \E m \in DOMAIN sent, t \in 1..ticks :
              k = ExpectedKey(m, t) /\ json_loads(store[k]).obj = json_loads(sent[m]).obj

\* the accepted envelope of 2024-01-01T00:00:00Z, persisted on 2023-12-31, is
\* in the store under the key of 2023-12-31 with its data
C14_Witness ==
    \E w \in Workers :
        /\ Accepted(w, "2024-01-01T00:00:00Z") /\ Persisted(req[w].resp.message_id)
        /\ ticks = 1
        /\ ExpectedKey(req[w].resp.message_id, 1) \in DOMAIN store
        /\ json_loads(store[ExpectedKey(req[w].resp.message_id, 1)]).obj
               = req[w].envelope.data.dict

(* ------------------------------ the consumer loop --------------------- *)
LoopPcs == {"poll", "parse", "upload", "delete", "sleep", "sleep_after_error"}
Sleeping == {"sleep", "sleep_after_error"}
Ended == {"stopped", "interrupted"}
Signalled == con.signal_at # "none"

\* C15: the loop never ends on an error. An exception that reaches main's
\* handler puts the loop into the sleep of the handler; a sleep is followed by
\* the next Polling phase and can always end; the loop is left only by the
\* shutdown signal; and a Polling phase starts only out of a sleep (or, the
\* first one, out of main's start).
C15_LoopSurvivesErrors ==
    /\ [](con.pc \in Sleeping => ENABLED Wake)
    /\ [][con' # con =>
             /\ (con.pc = "poll" /\ con'.caught /\ con'.signal_at = "none") =>
                    con'.pc = "sleep_after_error"
             /\ (con.pc \in Sleeping /\ con'.signal_at = "none") => con'.pc = "poll"
             /\ (con.pc \in LoopPcs /\ con'.pc \notin LoopPcs) =>
                    (con.signal_at = "none" /\ con'.signal_at = con.pc /\ con'.pc \in Ended)
             /\ con'.pc = "poll" => con.pc \in Sleeping \cup {"main"}]_vars

\* a cycle ended in main's except handler, the loop has slept and the next
\* Polling phase is on
C15_Witness ==
    /\ con.pc = "poll" /\ con.caught
    /\ con.signal_at = "none"

\* C16: once the shutdown signal has been raised, wherever main was, the loop
\* has ended: no Polling phase is started, nothing more is received, stored or
\* deleted.
C16_ShutdownStopsLoop ==
    /\ [](Signalled => con.pc \in Ended)
    /\ [][Signalled => (con' = con /\ store' = store /\ deleted' = deleted
                         /\ \A m \in DOMAIN queue :
                               m \in DOMAIN queue' /\ queue'[m].received = queue[m].received)]_vars

\* the signal arrived during the sleep that follows a failed cycle, with a
\* message still waiting on the queue
C16_Witness ==
    /\ con.signal_at = "sleep_after_error" /\ con.pc = "interrupted"
    /\ \E m \in DOMAIN queue : queue[m].visible

\* the identifiers main requires
Missing(v) == v \in {None, ""}
NothingDone ==
    /\ store = <<>> /\ deleted = {}
    /\ \A m \in DOMAIN queue : queue[m].received = "never"

C18_QueueRejection ==
    \A w \in Workers :
        Done(w) =>
            /\ req[w].sqs_outcome = "ClientError" =>
                   /\ req[w].resp.status = 500
                   /\ req[w].resp.error = <<"Failed to send message:", "ClientError">>
                   /\ req[w].resp.message_id = 0
            /\ req[w].sqs_outcome \in {"ClientError", "Exception"} => req[w].resp.status = 500
            /\ req[w].resp.status = 200 =>
                   /\ req[w].sqs_outcome = "ok" /\ req[w].nsend = 1
                   /\ req[w].resp.message_id \in DOMAIN sent
                   /\ sent[req[w].resp.message_id] = json_dumps(req[w].envelope.data.dict, 0)

\* a valid, correctly authenticated request was rejected by the queue and
\* answered 500 with the failure text, the queue left empty
C18_Witness ==
    \E w \in Workers :
        /\ Done(w) /\ req[w].sqs_outcome = "ClientError"
        /\ req[w].resp.status = 500
        /\ Contains(req[w].resp.error, <<"ClientError">>)
        /\ sent = <<>>

(* ------------------------------ key format ----------------------------- *)
\* C19: the key a successful upload_to_s3 writes is exactly
\* messages/{year}/{month, 2 digits}/{day, 2 digits}/{message_id}.json for the
\* UTC date of the call and the message id it was given, whatever the body
\* (with or without email_timestream, whatever its value): the call adds or
\* rewrites that one key and no other, and every key of the store has this form.
C19_KeyFormat ==
    /\ [](\A k \in DOMAIN store : \E m \in UploadIds, t \in 1..ticks : k = ExpectedKey(m, t))
    /\ [][upload_call'.result = "True" =>
             DOMAIN store' = DOMAIN store
                                \cup {ExpectedKey(upload_call'.message_id, upload_call'.day)}]_vars

\* data stamped 2023-06-15 was uploaded on 2024-01-01 over an object with
\* another body, and sits under the key of 2024-01-01
C19_Witness ==
    /\ UploadReturnedTrue
    /\ upload_call.message_data = DataAt("2023-06-15T12:00:00Z")
    /\ upload_call.day = 2
    /\ upload_call.replaced.found
    /\ upload_call.replaced.Body # json_dumps(upload_call.message_data, 2)
    /\ <<"messages", 2024, <<0, 1>>, <<0, 1>>, upload_call.message_id, ".json">> \in DOMAIN store

(* ------------------------------ health --------------------------------- *)
HealthAnswered(w) == req[w].pc = "done" /\ req[w].route = "/health"

\* C20: GET /health can be answered in every state of the process, its answer
\* is 200 with status 'healthy', and answering it fetches nothing from the
\* parameter store, sends nothing to the queue and leaves the token cache alone.
C20_HealthAlwaysHealthy ==
    /\ [](\A w \in Workers :
            /\ req[w].pc = "idle" => ENABLED Health(w)
            /\ HealthAnswered(w) =>
                   (req[w].resp.status = 200 /\ req[w].resp.body_status = "healthy"
                    /\ req[w].nfetch = 0 /\ req[w].nsend = 0))
    /\ [][\A w \in Workers :
             (req[w].pc = "idle" /\ req'[w].route = "/health") =>
                 /\ api_token_cache' = api_token_cache
                 /\ ssm_calls' = ssm_calls
                 /\ queue' = queue /\ sent' = sent]_vars

\* /health answered healthy with the cache filled, while another request has
\* just been refused by the queue
C20_Witness ==
    \E w, x \in Workers :
        /\ HealthAnswered(w) /\ req[w].resp.status = 200
        /\ Done(x) /\ req[x].sqs_outcome = "ClientError"
        /\ api_token_cache # None /\ ssm_calls > 0

(* ------------------------------ validator order ----------------------- *)
\* C21: the validator's rules apply in order and the first failure wins: no
\* 'data' is answered with the missing-data reason even without a token; 'data'
\* without a token is answered with the missing-token reason even when fields
\* are missing; missing fields are reported only with both keys present; and an
\* envelope with both keys and all four fields passes the validator whatever
\* the values of the fields.
C21_ValidatorOrder ==
    \A w \in Workers :
        JsonCall(w) =>
            LET e == req[w].envelope
                r == req[w].resp
            IN  /\ ~e.data.has => r = Err(400, <<"Missing 'data' field">>)
                /\ (e.data.has /\ e.token = None) => r = Err(400, <<"Missing 'token' field">>)
                /\ (r.status = 400 /\ Len(r.error) > 0
                        /\ r.error[1] = "Missing required fields in data:") =>
                       (e.data.has /\ e.token # None /\ MissingOf(e) # {})
                /\ ValidEnvelope(e) => r.status \in {200, 401, 500}

\* one request without data and without token, another with incomplete data
\* and no token, each answered with the reason of the first rule it fails
C21_Witness ==
    \E w, x \in Workers :
        /\ JsonCall(w) /\ ~req[w].envelope.data.has /\ req[w].envelope.token = None
        /\ req[w].resp = Err(400, <<"Missing 'data' field">>)
        /\ JsonCall(x) /\ req[x].envelope.data.has /\ req[x].envelope.token = None
        /\ MissingOf(req[x].envelope) # {}
        /\ req[x].resp = Err(400, <<"Missing 'token' field">>)

\* the envelope whose four fields are all empty strings has passed the validator
C21_WitnessValues ==
    \E w \in Workers :
        /\ JsonCall(w) /\ req[w].envelope.data.dict = EmptyValues
        /\ req[w].resp.status = 200

(* ------------------------------ delete failure ------------------------ *)
DeleteFailed(a) == a.put = "ok" /\ a.delete = "failed"

\* C22: when delete_message fails after a successful put, the object stays in
\* the store as written, the message stays in the queue and is not among the
\* deleted, process_message returns False and the message is not counted, and
\* the for loop goes on with the next message of the batch, so that the cycle
\* ends with every message of the batch attempted.
C22_DeleteFailureKeepsObject ==
    /\ [](\A k \in 1..Len(Attempts) :
            Attempts[k].delete = "failed" =>
                /\ DeleteFailed(Attempts[k])
                /\ Attempts[k].ret = FALSE
                /\ Attempts[k].MessageId \in DOMAIN queue
                /\ Attempts[k].MessageId \notin deleted
                /\ \E t \in 1..ticks :
                      /\ ExpectedKey(Attempts[k].MessageId, t) \in DOMAIN store
                      /\ store[ExpectedKey(Attempts[k].MessageId, t)]
                             = ObjectOf(sent[Attempts[k].MessageId]))
    /\ [](con.pc = "sleep" =>
            /\ Len(con.log) = Len(con.batch)
            /\ con.returned = Cardinality({k \in 1..Len(con.log) : con.log[k].ret})
            /\ \A k \in 1..Len(con.log) : con.log[k].ret => con.log[k].delete = "ok")
    /\ [][(con.pc = "delete" /\ con' # con /\ con'.signal_at = "none" /\ deleted' = deleted) =>
             /\ store' = store /\ queue' = queue
             /\ con'.successful = con.successful
             /\ con.i < Len(con.batch) => (con'.pc = "parse" /\ con'.i = con.i + 1)]_vars

\* the delete of the first message of a batch failed, the second message was
\* persisted and deleted, and the cycle counted one
C22_Witness ==
    /\ con.pc = "sleep" /\ Len(con.log) = 2
    /\ DeleteFailed(con.log[1]) /\ con.log[1].ret = FALSE
    /\ con.log[1].MessageId \in DOMAIN queue
    /\ ObjectsOfId(con.log[1].MessageId) # {}
    /\ con.log[2].put = "ok" /\ con.log[2].delete = "ok"
    /\ con.returned = 1

(* ------------------------------ a clean cycle -------------------------- *)
\* poll_sqs has returned from a cycle in which every message received was JSON
\* and no put and no delete failed
CleanCycle ==
    /\ con.pc = "sleep" /\ Len(con.batch) > 0
    /\ \A k \in 1..Len(con.batch) : con.batch[k].Body.wellformed
    /\ \A k \in 1..Len(con.log) :
          con.log[k].put \in {"none", "ok"} /\ con.log[k].delete \in {"none", "ok"}

\* C23: a cycle whose messages are all JSON and in which neither the store nor
\* the queue fails persists and deletes every message received: poll_sqs
\* returns the number received, which is at most MAX_MESSAGES; each message has
\* its object, one for its id and the date of the put, holding its data; and
\* none of the messages is left in the queue.
C23_CleanCycleDrainsBatch ==
    CleanCycle =>
        /\ con.returned = Len(con.batch)
        /\ Len(con.batch) <= MAX_MESSAGES
        /\ \A k \in 1..Len(con.batch) :
              LET m == con.batch[k].MessageId IN
              /\ con.log[k].MessageId = m
              /\ con.log[k].put = "ok" /\ con.log[k].delete = "ok" /\ con.log[k].ret
              /\ m \notin DOMAIN queue /\ m \in deleted
              /\ \E t \in 1..ticks :
                    /\ KeysFor(store, m, t) = {ExpectedKey(m, t)}
                    /\ store[ExpectedKey(m, t)] = ObjectOf(con.batch[k].Body)

\* a full batch of MAX_MESSAGES messages has been persisted and deleted
C23_Witness ==
    /\ CleanCycle
    /\ Len(con.batch) = MAX_MESSAGES /\ con.returned = MAX_MESSAGES
    /\ queue = <<>>
    /\ Cardinality(DOMAIN store) = MAX_MESSAGES

(* ------------------------------ an empty poll -------------------------- *)
\* C24: a receive_message that answers with no message is no error: poll_sqs
\* returns 0 and main goes to its idle sleep, not to its exception handler;
\* nothing is put and nothing is deleted, and the step leaves the queue and the
\* store as they were.
C24_EmptyPoll ==
    /\ [](con.polled = "empty" =>
            /\ con.pc \in {"sleep", "stopped"}
            /\ con.returned = 0 /\ con.successful = 0
            /\ Attempts = <<>>
            /\ ~con.caught)
    /\ [][(con'.polled = "empty" /\ con.polled # "empty") =>
             /\ con.pc = "poll" /\ con'.pc = "sleep"
             /\ queue' = queue /\ store' = store /\ deleted' = deleted]_vars

\* the poll came back empty although a message was waiting, and main sleeps
C24_Witness ==
    /\ con.polled = "empty" /\ con.pc = "sleep" /\ con.returned = 0
    /\ store # <<>>
    /\ \E m \in DOMAIN queue : queue[m].visible

(* ------------------------------ round trip ----------------------------- *)
Decoded(text) == json_loads(text).obj

\* C25: the body enqueued for an accepted request decodes to exactly the data
\* of its envelope, the token not among its fields; every object of the store
\* decodes to exactly what the queue body of its message decodes to; so the
\* object stored for an accepted request is the caller's data, no field added,
\* dropped or altered.
C25_RoundTrip ==
    /\ \A w \in Workers :
          (Done(w) /\ req[w].resp.status = 200) =>
              LET m == req[w].resp.message_id IN
              /\ m \in DOMAIN sent /\ sent[m].wellformed
              /\ Decoded(sent[m]) = req[w].envelope.data.dict
              /\ "token" \notin DOMAIN Decoded(sent[m])
              /\ \A k \in ObjectsOfId(m) :
                    /\ DOMAIN Decoded(store[k]) = DOMAIN req[w].envelope.data.dict
                    /\ \A f \in DOMAIN req[w].envelope.data.dict :
                          Decoded(store[k])[f] = req[w].envelope.data.dict[f]
    /\ \A k \in DOMAIN store :
          /\ k[5] \in DOMAIN sent /\ store[k].wellformed
          /\ Decoded(store[k]) = Decoded(sent[k[5]])

\* the accepted data with a field beyond the required four is in the store,
\* that field included
C25_Witness ==
    \E w \in Workers :
        /\ Done(w) /\ req[w].resp.status = 200
        /\ req[w].envelope.data.dict = WithExtra
        /\ \E k \in ObjectsOfId(req[w].resp.message_id) :
              /\ "extra_field" \in DOMAIN Decoded(store[k])
              /\ Decoded(store[k])["extra_field"] = "x"

(* ------------------------------ concurrent requests -------------------- *)
\* the secret has not changed and the request's own fetch, if it made one, succeeded
SecretStoreWorked(w) == rotations = 0 /\ (req[w].nfetch = 1 => req[w].fetched # None)

\* C26: with the secret unchanged and the parameter store answering, a request
\* is answered as it would be alone, whatever other requests run beside it: 400
\* for an envelope the validator refuses, 401 for a wrong token with nothing
\* sent, and for the correct token 200 or, if the queue refuses, 500, never 401;
\* an accepted request has made exactly one send, whose message id no other
\* request holds, and the queue has taken no more messages than there were sends.
C26_ConcurrentRequests ==
    /\ \A w \in Workers :
          (JsonCall(w) /\ SecretStoreWorked(w)) =>
              LET e == req[w].envelope
                  r == req[w].resp
              IN  /\ ~ValidEnvelope(e) => (r.status = 400 /\ req[w].nsend = 0)
                  /\ (ValidEnvelope(e) /\ e.token # ssm_value) =>
                         (r.status = 401 /\ req[w].nsend = 0)
                  /\ (ValidEnvelope(e) /\ e.token = ssm_value) =>
                         /\ req[w].nsend = 1
                         /\ r.status = (IF req[w].sqs_outcome = "ok" THEN 200 ELSE 500)
                  /\ r.status = 200 =>
                         /\ r.message_id \in DOMAIN sent
                         /\ \A x \in Workers \ {w} : req[x].resp.message_id # r.message_id
    /\ Cardinality(DOMAIN sent) <= calls

\* two requests with the correct token ran side by side, both found the cache
\* empty and both fetched; both were accepted, each with a message of its own
C26_Witness ==
    /\ overlapped /\ rotations = 0 /\ ssm_calls = 2
    /\ \A w \in Workers :
          /\ Done(w) /\ req[w].cache_seen = None /\ req[w].nfetch = 1
          /\ req[w].resp.status = 200
    /\ req["w1"].resp.message_id # req["w2"].resp.message_id
    /\ Cardinality(DOMAIN sent) = 2

(* ------------------------------ nothing unauthenticated ---------------- *)
\* C27: nothing reaches the queue without validation and authentication. A
\* request arrives at send_to_sqs only with an envelope that passes the
\* validator and a token equal to the value of the cache at that moment; a
\* message is added to the queue only by such a request, one at a time, its
\* body the request's data; and a request answered 400 or 401 has sent nothing.
C27_NoUnauthenticatedEnqueue ==
    /\ [](\A w \in Workers :
            /\ (Done(w) /\ req[w].resp.status \in {400, 401}) =>
                   (req[w].nsend = 0 /\ req[w].sqs_outcome = "none")
            /\ (req[w].pc = "send_to_sqs" \/ req[w].nsend > 0) =>
                   /\ ValidEnvelope(req[w].envelope)
                   /\ req[w].envelope.token = req[w].expected_token)
    /\ [][/\ \A w \in Workers :
               (req[w].pc # "send_to_sqs" /\ req'[w].pc = "send_to_sqs") =>
                   /\ api_token_cache' = api_token_cache
                   /\ req'[w].envelope.token = api_token_cache
                   /\ ValidEnvelope(req'[w].envelope)
          /\ DOMAIN sent' # DOMAIN sent =>
                 \E w \in Workers :
                     /\ req[w].pc = "send_to_sqs" /\ req'[w].resp.status = 200
                     /\ DOMAIN sent' = DOMAIN sent \cup {req'[w].resp.message_id}
                     /\ req'[w].resp.message_id \notin DOMAIN sent
                     /\ sent'[req'[w].resp.message_id]
                            = json_dumps(req[w].envelope.data.dict, 0)
                     /\ DOMAIN queue' = DOMAIN queue \cup {req'[w].resp.message_id}]_vars

\* one message is on the queue, sent by the request that holds its id, while a
\* request with a wrong token was answered 401 and sent nothing
C27_Witness ==
    \E w, x \in Workers :
        /\ Done(w) /\ req[w].resp.status = 200
        /\ DOMAIN queue = {req[w].resp.message_id}
        /\ req[w].envelope.token = req[w].expected_token
        /\ Done(x) /\ req[x].resp.status = 401 /\ req[x].nsend = 0
        /\ ValidEnvelope(req[x].envelope) /\ req[x].expected_token # None

(* ------------------------------ nothing accepted is lost --------------- *)
\* the queue still holds message m, visible or in flight
HeldByQueue(m) == m \in DOMAIN queue /\ queue[m].Body = sent[m]
\* the store has an object of message m that decodes to what was sent
HasObject(m) == \E k \in ObjectsOfId(m) : Decoded(store[k]) = Decoded(sent[m])

\* C28: no accepted message is lost. The message id of a 200 answer names a
\* message the queue took, holding the request's data; and every message the
\* queue took is still in the queue or has an object in the store that decodes
\* to its data, whatever the consumer, the store and the queue have done since.
C28_NoAcceptedMessageLost ==
    /\ \A w \in Workers :
          (Done(w) /\ req[w].resp.status = 200) =>
              /\ req[w].resp.message_id \in DOMAIN sent
              /\ Decoded(sent[req[w].resp.message_id]) = req[w].envelope.data.dict
    /\ \A m \in DOMAIN sent : HeldByQueue(m) \/ HasObject(m)
    /\ \A m \in deleted : m \in DOMAIN sent /\ HasObject(m)

\* an accepted message is gone from the queue and in the store, and the
\* consumer has been shut down since
C28_Witness ==
    /\ con.signal_at # "none"
    /\ \E m \in DOMAIN sent :
          /\ m \notin DOMAIN queue /\ m \in deleted
          /\ \E k \in ObjectsOfId(m) : Decoded(store[k]) = FullData

(* ------------------------------ eventual delivery ---------------------- *)
Delivered(m) == m \in deleted /\ m \notin DOMAIN queue /\ HasObject(m)

\* C29: with the consumer not shut down and its loop scheduled fairly, the
\* queue redelivering what is not deleted, and puts and deletes succeeding in
\* the end, every message the ingress has enqueued is in the end persisted in
\* the store and deleted from the queue.
C29_EventualDelivery == \A m \in 1..MaxAccepted : (m \in DOMAIN sent) ~> Delivered(m)

\* a message was persisted on one day, not deleted, delivered again and
\* persisted and deleted on the next day
C29_Witness ==
    \E m \in DOMAIN sent :
        /\ Delivered(m)
        /\ Cardinality(ObjectsOfId(m)) = 2

====
